---- MODULE Spec2Model ----
(***************************************************************************)
(* Deep Research AI Agent: the four-stage research pipeline                *)
(* (research_agent.py), the process-wide progress log (progress.py) and    *)
(* the part of the Streamlit front end that starts a run and renders its   *)
(* result (app.py).                                                        *)
(*                                                                         *)
(* The worker executes execute_research statement group by statement       *)
(* group: one action per code segment that ends in a log_event, in an      *)
(* external call or in a return.  The outcome of an external call          *)
(* (returned value or raised exception) is chosen nondeterministically.    *)
(*                                                                         *)
(* build_research_graph wires the four nodes with unconditional edges      *)
(* START -> analyze_query -> research -> analyze_content ->                *)
(* generate_report -> END: every node runs, in this order, on the state    *)
(* the node before it returned.                                            *)
(***************************************************************************)
EXTENDS Integers, Sequences, FiniteSets, TLC

\* ------------------------------------------------------------------------
\* Bounds of the model and program constants
\* ------------------------------------------------------------------------

\* largest number of documents the search capability answers with
MaxReturned == 3

\* web_researcher keeps search_response["results"][:2]
KeptResults == 2

\* content_analyzer reads state.search_results[:2]
AnalyzedResults == 2

\* Python's None, where a string is optional
None == "<None>"

\* get_current_logger() when no ProgressLogger is installed
NoLogger == 0

\* queries handed to the run entry point
Queries == {"", "AI safety"}

\* texts the inference capability answers with (response.content)
GeminiTexts == {"", "text"}

\* str(e) of the exceptions the external capabilities raise
ExcMsgs == {"quota exceeded"}

\* str(e) of the exceptions that reach the except clause of execute_research
EscapedMsgs == {"graph construction failed", "1 validation error for ResearchState"}

\* str(e) of the TypeError raised by None[:200]
NotSubscriptable == "'NoneType' object is not subscriptable"

\* documents the search capability answers with: the content of a hit is a
\* text, or null (result.get("content", "") then yields None)
RawDocs ==
    { [title |-> "T1", url |-> "u1", content |-> "body", source |-> "web"],
      [title |-> "T2", url |-> "u2", content |-> None,   source |-> "web"] }

\* the stages of the graph, in edge order
Stages == <<"analyze_query", "research", "analyze_content", "generate_report">>

StageIndex(s) == CHOOSE i \in 1..Len(Stages) : Stages[i] = s

\* ------------------------------------------------------------------------
\* Python helpers
\* ------------------------------------------------------------------------

\* seq[:n]
Take(seq, n) == SubSeq(seq, 1, IF Len(seq) < n THEN Len(seq) ELSE n)

\* {}
EmptyDict == [k \in {} |-> None]

\* d.get(k, default)
Get(d, k, default) == IF k \in DOMAIN d THEN d[k] ELSE default

\* all sequences over S of length 0..n
RECURSIVE SeqsUpTo(_, _)
SeqsUpTo(S, n) ==
    IF n = 0 THEN {<<>>}
    ELSE LET shorter == SeqsUpTo(S, n - 1)
         IN  shorter \cup { Append(q, x) : q \in { r \in shorter : Len(r) = n - 1 }, x \in S }

\* ------------------------------------------------------------------------
\* State
\* ------------------------------------------------------------------------
VARIABLES
    query,           \* argument of main's form / execute_research
    caller,          \* "none" | "main" (app.py) | "direct" (execute_research called directly)
    pc,              \* position of the run
    state,           \* ResearchState of the run
    current_logger,  \* progress._current_logger: id of a ProgressLogger, or NoLogger
    loggers,         \* ProgressLogger objects created so far: loggers[id] = its events
    progress_logger, \* execute_research's local progress_logger
    result,          \* value execute_research returned (EmptyDict before it returns)
    result_holder,   \* main's result_holder dict
    failed,          \* stages of the run that failed (took a failure branch)
    hist,            \* what the stages did, in order: log_event calls and external calls
    compiled         \* number of generate_research_report calls made by display_results

\* the section generator (report_generator.py)
VARIABLES
    g_in,            \* arguments of generate_report_async: query, analysis, search_results
    gen,             \* gen[g]: the compile run of ParallelReportGenerator instance g
    now              \* the wall clock, in seconds

genVars == << g_in, gen, now >>

\* the observer (the poll loop of main in app.py) and the worker thread of an
\* earlier run that has not returned yet
VARIABLES
    obs,             \* main's locals around the poll loop, and the progress bar
    earlier          \* the earlier run's worker: its position and log_event's locals

\* what the actions of the pipeline leave alone (display_results sets obs)
otherVars == << genVars, earlier >>

vars == << query, caller, pc, state, current_logger, loggers, progress_logger,
           result, result_holder, failed, hist, compiled, otherVars, obs >>

\* ResearchState(query=q)
ResearchState(q) ==
    [ query |-> q, research_topic |-> "", search_results |-> <<>>,
      analysis |-> "", report |-> "", status |-> "initialized", error |-> None ]

\* ProgressEvent built by ProgressLogger.emit: the timestamp is the clock read
\* at construction; run tells which run's stage emitted it (meta is not modelled)
ProgressEvent(component, action, status, message) ==
    [ timestamp |-> now, component |-> component, action |-> action, status |-> status,
      message |-> message, run |-> "this" ]

\* ProgressLogger(): a new logger object with no events; its id is its index
NewLogger == Len(loggers) + 1

\* an emit that puts the new event first
emit_in_front(ls, component, action, status, message) ==
    IF current_logger # NoLogger
    THEN [ls EXCEPT ![current_logger] = << ProgressEvent(component, action, status, message) >> \o @]
    ELSE ls

\* log_event: ProgressLogger.emit on the current logger, nothing when there is none
emit(ls, component, action, status, message) ==
    IF current_logger # NoLogger
    THEN [ls EXCEPT ![current_logger] = Append(@, ProgressEvent(component, action, status, message))]
    ELSE ls

\* history entries
HEvent(stage, component, action, status, message) ==
    [ stage |-> stage, kind |-> "event", component |-> component, action |-> action,
      status |-> status, message |-> message, at |-> "" ]

HCall(stage, capability) ==
    [ stage |-> stage, kind |-> capability, component |-> "", action |-> "",
      status |-> "", message |-> "", at |-> state.status ]

\* one log_event call of a stage: the current log and the history
log_event(stage, component, action, status, message) ==
    /\ loggers' = emit(loggers, component, action, status, message)
    /\ hist' = Append(hist, HEvent(stage, component, action, status, message))

\* ------------------------------------------------------------------------
\* Section generator: state
\* ------------------------------------------------------------------------

\* ParallelReportGenerator instances of the model
Generators == {1, 2}

\* the five generation tasks, in the order generate_report_async submits them;
\* task k produces the section of order k
Tasks == 1..5

\* a compile run of a generator that is not used
IdleRun(W, at) ==
    [ pc |-> at,                            \* position of generate_report_async
      max_workers |-> W,                    \* self.max_workers
      task |-> [ k \in Tasks |-> "new" ],   \* new | queued | running | done | raised
      resp |-> [ k \in Tasks |-> None ],    \* what the inference call of task k did
      out |-> [ k \in Tasks |-> None ],     \* the ReportSection task k returned
      overtaken |-> FALSE,                  \* a task completed before a task submitted earlier
      sections |-> <<>>,                    \* the gathered, sorted sections
      result |-> EmptyDict ]                \* what generate_report_async returned

\* the weights of the stages (app.py 328-331), the value the bar is held under
\* while the result is awaited and the value of a full bar (app.py 335, 428)
QAStarted == 8
QADone == 20
WRStarted == 12
WRDone == 30
CAStarted == 12
CADone == 30
RPDone == 20
Hold == 85
Full == 100

\* main's locals before the first poll (app.py 252-279): nothing read yet, no
\* stage seen, the bar at 0
NoFlags ==
    [ qa_started |-> FALSE, qa_done |-> FALSE, wr_started |-> FALSE, wr_done |-> FALSE,
      ca_started |-> FALSE, ca_done |-> FALSE, rp_started |-> FALSE, rp_done |-> FALSE ]

ObserverLocals ==
    [ pc |-> "loop_281",       \* "loop_281" | "body_300" | "after_loop"
      logger |-> NoLogger,     \* logger: what get_current_logger() returned
      events |-> <<>>,         \* events: the snapshot list(logger.events)
      last_len |-> 0,
      flags |-> NoFlags,
      event_state |-> EmptyDict,   \* (component, action) -> timestamp, status, message
      processed |-> <<>>,      \* the chunks of all polls so far, in order
      bar |-> 0 ]              \* value last passed to overall_bar.progress

\* there is no earlier run
NoEarlier == [ pc |-> "none", logger |-> NoLogger, ts |-> 0 ]

\* no generator is in use
GenUnused ==
    /\ g_in = [ query |-> "", analysis |-> "", search_results |-> <<>> ]
    /\ gen = [ g \in Generators |-> IdleRun(0, "unused") ]
    /\ now = 0

Init ==
    /\ query \in Queries
    /\ caller = "none"
    /\ pc = "idle"
    /\ state = ResearchState("")
    /\ current_logger = NoLogger
    /\ loggers = <<>>
    /\ progress_logger = NoLogger
    /\ result = EmptyDict
    /\ result_holder = EmptyDict
    /\ failed = {}
    /\ hist = <<>>
    /\ compiled = 0
    /\ GenUnused
    /\ obs = ObserverLocals
    /\ earlier = NoEarlier

\* ------------------------------------------------------------------------
\* Starting a run
\* ------------------------------------------------------------------------

\* main: the form was submitted with a non-empty query; a fresh logger is
\* installed and the worker thread is started
main ==
    /\ UNCHANGED << otherVars, obs >>
    /\ pc = "idle"
    /\ query # ""
    /\ caller' = "main"
    /\ loggers' = Append(loggers, <<>>)
    /\ current_logger' = NewLogger
    /\ pc' = "er_290"
    /\ UNCHANGED << query, state, progress_logger, result, result_holder, failed, hist, compiled >>

\* execute_research is called by another caller than the front end
execute_research_called ==
    /\ UNCHANGED << otherVars, obs >>
    /\ pc = "idle"
    /\ caller' = "direct"
    /\ pc' = "er_290"
    /\ UNCHANGED << query, state, current_logger, loggers, progress_logger, result,
                    result_holder, failed, hist, compiled >>

\* a failure result that does not carry the query
FailureResult_without_query(e) == [ success |-> FALSE, error |-> e ]

\* the except clause of execute_research
FailureResult(e) == [ success |-> FALSE, error |-> e, query |-> query ]

\* history entry: an exception reached the except clause of execute_research
HRaise(e) ==
    [ stage |-> "execute_research", kind |-> "raise", component |-> "", action |-> "",
      status |-> "", message |-> e, at |-> "" ]

\* execute_research up to the first node of the graph: the graph is built,
\* the run's logger is created and installed, the initial state is created
\* and the graph is invoked. An exception raised by the construction of the
\* graph (291), or after the logger was installed by the creation of the
\* state or by graph.invoke (296-299), is caught by the except clause, which
\* returns the failure result and leaves the current logger as it is
execute_research_begin ==
    /\ UNCHANGED << otherVars, obs >>
    /\ pc = "er_290"
    /\ \/ /\ loggers' = Append(loggers, <<>>)
          /\ progress_logger' = NewLogger
          /\ current_logger' = NewLogger
          /\ state' = ResearchState(query)
          /\ pc' = "qa_59"
          /\ UNCHANGED << result, hist >>
       \/ \E e \in EscapedMsgs :
          /\ result' = FailureResult(e)
          /\ hist' = Append(hist, HRaise(e))
          /\ pc' = "returned"
          /\ UNCHANGED << loggers, progress_logger, current_logger, state >>
       \/ \E e \in EscapedMsgs :
          /\ loggers' = Append(loggers, <<>>)
          /\ progress_logger' = NewLogger
          /\ current_logger' = NewLogger
          /\ result' = FailureResult(e)
          /\ hist' = Append(hist, HRaise(e))
          /\ pc' = "returned"
          /\ UNCHANGED state
    /\ UNCHANGED << query, caller, result_holder, failed, compiled >>

\* ------------------------------------------------------------------------
\* query_analyzer
\* ------------------------------------------------------------------------

query_analyzer_started ==
    /\ UNCHANGED << otherVars, obs >>
    /\ pc = "qa_59"
    /\ log_event("analyze_query", "LangGraph", "analyze_query", "started", "Analyzing query")
    /\ pc' = "qa_82"
    /\ UNCHANGED << query, caller, state, current_logger, progress_logger, result,
                    result_holder, failed, compiled >>

query_analyzer_gemini_started ==
    /\ UNCHANGED << otherVars, obs >>
    /\ pc = "qa_82"
    /\ log_event("analyze_query", "Gemini", "invoke", "started", "Generating topic analysis")
    /\ pc' = "qa_83"
    /\ UNCHANGED << query, caller, state, current_logger, progress_logger, result,
                    result_holder, failed, compiled >>

\* gemini_client.invoke returns (the state is written) or raises (the except
\* clause writes error and status, logs the error and returns)
query_analyzer_invoke ==
    /\ UNCHANGED << otherVars, obs >>
    /\ pc = "qa_83"
    /\ \/ \E content \in GeminiTexts :
          /\ state' = [state EXCEPT !.research_topic = content, !.status = "query_analyzed"]
          /\ hist' = Append(hist, HCall("analyze_query", "invoke"))
          /\ pc' = "qa_86"
          /\ UNCHANGED << loggers, failed >>
       \/ \E e \in ExcMsgs :
          LET msg == "Query analysis failed: " \o e
          IN  /\ state' = [state EXCEPT !.error = msg, !.status = "error"]
              /\ loggers' = emit(loggers, "LangGraph", "analyze_query", "error", msg)
              /\ hist' = hist \o << HCall("analyze_query", "invoke"),
                                    HEvent("analyze_query", "LangGraph", "analyze_query", "error", msg) >>
              /\ failed' = failed \cup {"analyze_query"}
              /\ pc' = "wr_100"
    /\ UNCHANGED << query, caller, current_logger, progress_logger, result,
                    result_holder, compiled >>

query_analyzer_gemini_completed ==
    /\ UNCHANGED << otherVars, obs >>
    /\ pc = "qa_86"
    /\ log_event("analyze_query", "Gemini", "invoke", "completed", "Topic analysis generated")
    /\ pc' = "qa_88"
    /\ UNCHANGED << query, caller, state, current_logger, progress_logger, result,
                    result_holder, failed, compiled >>

query_analyzer_completed ==
    /\ UNCHANGED << otherVars, obs >>
    /\ pc = "qa_88"
    /\ log_event("analyze_query", "LangGraph", "analyze_query", "completed", "Query analysis completed")
    /\ pc' = "wr_100"
    /\ UNCHANGED << query, caller, state, current_logger, progress_logger, result,
                    result_holder, failed, compiled >>

\* ------------------------------------------------------------------------
\* web_researcher
\* ------------------------------------------------------------------------

\* the check of the query (which does not return) and the started event
web_researcher_started ==
    /\ UNCHANGED << otherVars, obs >>
    /\ pc = "wr_100"
    /\ IF state.query = ""
       THEN /\ state' = [state EXCEPT !.error = "No query provided for research", !.status = "error"]
            /\ failed' = failed \cup {"research"}
       ELSE UNCHANGED << state, failed >>
    /\ log_event("research", "Tavily", "search", "started", "Searching the web")
    /\ pc' = "wr_106"
    /\ UNCHANGED << query, caller, current_logger, progress_logger, result,
                    result_holder, compiled >>

\* one processed hit: result.get(k, "") for the four keys
ProcessedResult(r) ==
    [ title |-> Get(r, "title", ""), url |-> Get(r, "url", ""),
      content |-> Get(r, "content", ""), source |-> Get(r, "source", "") ]

\* the results list built from the response of the search
ProcessResults(search_response) ==
    IF "results" \in DOMAIN search_response
    THEN LET kept == Take(search_response["results"], KeptResults)
         IN  [ i \in 1..Len(kept) |-> ProcessedResult(kept[i]) ]
    ELSE <<>>

\* responses of the search capability: a dict with or without "results"
SearchResponses ==
    { [ results |-> docs ] : docs \in SeqsUpTo(RawDocs, MaxReturned) } \cup { EmptyDict }

\* tavily_client.search returns (results are processed, the state is written)
\* or raises (the except clause)
web_researcher_search ==
    /\ UNCHANGED << otherVars, obs >>
    /\ pc = "wr_106"
    /\ \/ \E search_response \in SearchResponses :
          /\ state' = [state EXCEPT !.search_results = ProcessResults(search_response),
                                    !.status = "research_completed"]
          /\ hist' = Append(hist, HCall("research", "search"))
          /\ pc' = "wr_125"
          /\ UNCHANGED << loggers, failed >>
       \/ \E e \in ExcMsgs :
          LET msg == "Web research failed: " \o e
          IN  /\ state' = [state EXCEPT !.error = msg, !.status = "error"]
              /\ loggers' = emit(loggers, "Tavily", "search", "error", msg)
              /\ hist' = hist \o << HCall("research", "search"),
                                    HEvent("research", "Tavily", "search", "error", msg) >>
              /\ failed' = failed \cup {"research"}
              /\ pc' = "ca_137"
    /\ UNCHANGED << query, caller, current_logger, progress_logger, result,
                    result_holder, compiled >>

web_researcher_completed ==
    /\ UNCHANGED << otherVars, obs >>
    /\ pc = "wr_125"
    /\ log_event("research", "Tavily", "search", "completed",
                 "Found " \o ToString(Len(state.search_results)) \o " results")
    /\ pc' = "ca_137"
    /\ UNCHANGED << query, caller, state, current_logger, progress_logger, result,
                    result_holder, failed, compiled >>

\* ------------------------------------------------------------------------
\* content_analyzer
\* ------------------------------------------------------------------------

\* building content_summary raises when r['content'][:200] is applied to None
SummaryRaises(search_results) ==
    \E i \in 1..Len(Take(search_results, AnalyzedResults)) : search_results[i].content = None

\* content_analyzer_started with the return of the empty-results branch left out
content_analyzer_started_no_return ==
    /\ UNCHANGED << otherVars, obs >>
    /\ pc = "ca_137"
    /\ IF state.search_results = <<>>
       THEN /\ state' = [state EXCEPT !.error = "No search results to analyze", !.status = "error"]
            /\ failed' = failed \cup {"analyze_content"}
       ELSE UNCHANGED << state, failed >>
    /\ log_event("analyze_content", "LangGraph", "analyze_content", "started",
                 "Analyzing synthesized content")
    /\ pc' = "ca_186"
    /\ UNCHANGED << query, caller, current_logger, progress_logger, result,
                    result_holder, compiled >>

\* the check of the search results, the construction of the prompt and the
\* started event of the node
content_analyzer_started ==
    /\ UNCHANGED << otherVars, obs >>
    /\ pc = "ca_137"
    /\ IF state.search_results = <<>>
       THEN /\ state' = [state EXCEPT !.error = "No search results to analyze", !.status = "error"]
            /\ failed' = failed \cup {"analyze_content"}
            /\ pc' = "rg_204"
            /\ UNCHANGED << loggers, hist >>
       ELSE IF SummaryRaises(state.search_results)
       THEN LET msg == "Content analysis failed: " \o NotSubscriptable
            IN  /\ state' = [state EXCEPT !.error = msg, !.status = "error"]
                /\ log_event("analyze_content", "Gemini", "invoke", "error", msg)
                /\ failed' = failed \cup {"analyze_content"}
                /\ pc' = "rg_204"
       ELSE /\ log_event("analyze_content", "LangGraph", "analyze_content", "started",
                         "Analyzing synthesized content")
            /\ pc' = "ca_186"
            /\ UNCHANGED << state, failed >>
    /\ UNCHANGED << query, caller, current_logger, progress_logger, result,
                    result_holder, compiled >>

content_analyzer_gemini_started ==
    /\ UNCHANGED << otherVars, obs >>
    /\ pc = "ca_186"
    /\ log_event("analyze_content", "Gemini", "invoke", "started", "Synthesizing content analysis")
    /\ pc' = "ca_187"
    /\ UNCHANGED << query, caller, state, current_logger, progress_logger, result,
                    result_holder, failed, compiled >>

content_analyzer_invoke ==
    /\ UNCHANGED << otherVars, obs >>
    /\ pc = "ca_187"
    /\ \/ \E content \in GeminiTexts :
          /\ state' = [state EXCEPT !.analysis = content, !.status = "analysis_completed"]
          /\ hist' = Append(hist, HCall("analyze_content", "invoke"))
          /\ pc' = "ca_190"
          /\ UNCHANGED << loggers, failed >>
       \/ \E e \in ExcMsgs :
          LET msg == "Content analysis failed: " \o e
          IN  /\ state' = [state EXCEPT !.error = msg, !.status = "error"]
              /\ loggers' = emit(loggers, "Gemini", "invoke", "error", msg)
              /\ hist' = hist \o << HCall("analyze_content", "invoke"),
                                    HEvent("analyze_content", "Gemini", "invoke", "error", msg) >>
              /\ failed' = failed \cup {"analyze_content"}
              /\ pc' = "rg_204"
    /\ UNCHANGED << query, caller, current_logger, progress_logger, result,
                    result_holder, compiled >>

content_analyzer_gemini_completed ==
    /\ UNCHANGED << otherVars, obs >>
    /\ pc = "ca_190"
    /\ log_event("analyze_content", "Gemini", "invoke", "completed", "Analysis synthesized")
    /\ pc' = "ca_191"
    /\ UNCHANGED << query, caller, state, current_logger, progress_logger, result,
                    result_holder, failed, compiled >>

content_analyzer_completed ==
    /\ UNCHANGED << otherVars, obs >>
    /\ pc = "ca_191"
    /\ log_event("analyze_content", "LangGraph", "analyze_content", "completed",
                 "Content analysis completed")
    /\ pc' = "rg_204"
    /\ UNCHANGED << query, caller, state, current_logger, progress_logger, result,
                    result_holder, failed, compiled >>

\* ------------------------------------------------------------------------
\* report_generator
\* ------------------------------------------------------------------------

\* the construction of the prompt (its own failures are swallowed) and the
\* started event of the node
report_generator_started ==
    /\ UNCHANGED << otherVars, obs >>
    /\ pc = "rg_204"
    /\ log_event("generate_report", "LangGraph", "generate_report", "started", "Composing final report")
    /\ pc' = "rg_253"
    /\ UNCHANGED << query, caller, state, current_logger, progress_logger, result,
                    result_holder, failed, compiled >>

report_generator_gemini_started ==
    /\ UNCHANGED << otherVars, obs >>
    /\ pc = "rg_253"
    /\ log_event("generate_report", "Gemini", "invoke", "started", "Generating final report")
    /\ pc' = "rg_254"
    /\ UNCHANGED << query, caller, state, current_logger, progress_logger, result,
                    result_holder, failed, compiled >>

\* report_generator_invoke with the write of the status left out of the try body
report_generator_invoke_no_status ==
    /\ UNCHANGED << otherVars, obs >>
    /\ pc = "rg_254"
    /\ hist' = Append(hist, HCall("generate_report", "invoke"))
    /\ \/ \E content \in GeminiTexts :
          /\ state' = [state EXCEPT !.report = content]
          /\ pc' = "rg_257"
          /\ UNCHANGED failed
       \/ \E e \in ExcMsgs :
          /\ state' = [state EXCEPT !.error = "Report generation failed: " \o e, !.status = "error"]
          /\ failed' = failed \cup {"generate_report"}
          /\ pc' = "er_301"
    /\ UNCHANGED << query, caller, current_logger, loggers, progress_logger, result,
                    result_holder, compiled >>

\* the except clause of report_generator logs no event
report_generator_invoke ==
    /\ UNCHANGED << otherVars, obs >>
    /\ pc = "rg_254"
    /\ hist' = Append(hist, HCall("generate_report", "invoke"))
    /\ \/ \E content \in GeminiTexts :
          /\ state' = [state EXCEPT !.report = content, !.status = "report_generated"]
          /\ pc' = "rg_257"
          /\ UNCHANGED failed
       \/ \E e \in ExcMsgs :
          /\ state' = [state EXCEPT !.error = "Report generation failed: " \o e, !.status = "error"]
          /\ failed' = failed \cup {"generate_report"}
          /\ pc' = "er_301"
    /\ UNCHANGED << query, caller, current_logger, loggers, progress_logger, result,
                    result_holder, compiled >>

report_generator_gemini_completed ==
    /\ UNCHANGED << otherVars, obs >>
    /\ pc = "rg_257"
    /\ log_event("generate_report", "Gemini", "invoke", "completed", "Report generated")
    /\ pc' = "rg_258"
    /\ UNCHANGED << query, caller, state, current_logger, progress_logger, result,
                    result_holder, failed, compiled >>

\* report_generator_completed with the completed event of the node left out
report_generator_completed_no_event ==
    /\ UNCHANGED << otherVars, obs >>
    /\ pc = "rg_258"
    /\ pc' = "er_301"
    /\ UNCHANGED << query, caller, state, current_logger, loggers, progress_logger, result,
                    result_holder, failed, hist, compiled >>

report_generator_completed ==
    /\ UNCHANGED << otherVars, obs >>
    /\ pc = "rg_258"
    /\ log_event("generate_report", "LangGraph", "generate_report", "completed",
                 "Report generation completed")
    /\ pc' = "er_301"
    /\ UNCHANGED << query, caller, state, current_logger, progress_logger, result,
                    result_holder, failed, compiled >>

\* ------------------------------------------------------------------------
\* The end of execute_research, and the front end's use of the result
\* ------------------------------------------------------------------------

\* the output dict built from the final state of the graph
Output(st, events) ==
    [ success |-> TRUE, query |-> st.query, topic_analysis |-> st.research_topic,
      search_results |-> st.search_results, analysis |-> st.analysis,
      report |-> st.report, status |-> st.status, progress |-> events ]

\* graph.invoke has returned: the output is built from the state and the
\* run's own logger, the current logger is reset, the output is returned
execute_research_output ==
    /\ UNCHANGED << otherVars, obs >>
    /\ pc = "er_301"
    /\ result' = Output(state, loggers[progress_logger])
    /\ current_logger' = NoLogger
    /\ pc' = "returned"
    /\ UNCHANGED << query, caller, state, loggers, progress_logger, result_holder,
                    failed, hist, compiled >>

\* the worker thread of main stores what run_research returned
_run ==
    /\ UNCHANGED << otherVars, obs >>
    /\ pc = "returned"
    /\ caller = "main"
    /\ result_holder' = [ k \in {"result"} |-> result ]
    /\ pc' = "thread_done"
    /\ UNCHANGED << query, caller, state, current_logger, loggers, progress_logger,
                    result, failed, hist, compiled >>

\* generate_report_from_research calls generate_research_report iff the
\* success flag of the result is set
generate_report_from_research(research_result) == Get(research_result, "success", FALSE)

\* main after the poll loop (the loop test finds the thread dead): the bar is
\* filled to 100, display_results renders the stored result and compiles the
\* report of a result whose success flag is set
display_results ==
    /\ UNCHANGED otherVars
    /\ pc = "thread_done"
    /\ obs.pc = "loop_281"
    /\ obs' = [obs EXCEPT !.pc = "after_loop", !.bar = Full]
    /\ LET research_result == Get(result_holder, "result", [ success |-> FALSE, error |-> "Unknown error" ])
       IN  compiled' = IF Get(research_result, "success", FALSE) /\ generate_report_from_research(research_result)
                       THEN compiled + 1 ELSE compiled
    /\ pc' = "displayed"
    /\ UNCHANGED << query, caller, state, current_logger, loggers, progress_logger,
                    result, result_holder, failed, hist >>

Next ==
    \/ main
    \/ execute_research_called
    \/ execute_research_begin
    \/ query_analyzer_started
    \/ query_analyzer_gemini_started
    \/ query_analyzer_invoke
    \/ query_analyzer_gemini_completed
    \/ query_analyzer_completed
    \/ web_researcher_started
    \/ web_researcher_search
    \/ web_researcher_completed
    \/ content_analyzer_started
    \/ content_analyzer_gemini_started
    \/ content_analyzer_invoke
    \/ content_analyzer_gemini_completed
    \/ content_analyzer_completed
    \/ report_generator_started
    \/ report_generator_gemini_started
    \/ report_generator_invoke
    \/ report_generator_gemini_completed
    \/ report_generator_completed
    \/ execute_research_output
    \/ _run
    \/ display_results

Spec == Init /\ [][Next]_vars

\* ------------------------------------------------------------------------
\* Shape of the state
\* ------------------------------------------------------------------------

Statuses ==
    { "initialized", "query_analyzed", "research_completed", "analysis_completed",
      "report_generated", "error" }

TypeOK ==
    /\ query \in Queries
    /\ caller \in {"none", "main", "direct"}
    /\ state.status \in Statuses
    /\ current_logger \in 0..Len(loggers)
    /\ progress_logger \in 0..Len(loggers)
    /\ failed \subseteq { Stages[i] : i \in 1..Len(Stages) }
    /\ compiled \in 0..1

\* ------------------------------------------------------------------------
\* Vocabulary of the properties
\* ------------------------------------------------------------------------

\* the position of the run right after stage s has returned
EndPc(s) ==
    CASE s = "analyze_query"   -> "wr_100"
      [] s = "research"        -> "ca_137"
      [] s = "analyze_content" -> "rg_204"
      [] s = "generate_report" -> "er_301"

\* the 'From' status of stage s in the transition table
FromStatus(s) ==
    CASE s = "analyze_query"   -> "initialized"
      [] s = "research"        -> "query_analyzed"
      [] s = "analyze_content" -> "research_completed"
      [] s = "generate_report" -> "analysis_completed"

StageSet == { Stages[i] : i \in 1..Len(Stages) }

\* execute_research has returned
Returned == pc \in {"returned", "thread_done", "displayed"}

\* an exception reached the except clause of execute_research
Escaped == \E i \in 1..Len(hist) : hist[i].kind = "raise"

\* the graph ran to its end (all four nodes returned)
GraphEnded ==
    /\ pc \in {"er_301", "returned", "thread_done", "displayed"}
    /\ progress_logger # NoLogger
    /\ ~Escaped

\* the event log of the run
RunLog == IF progress_logger = NoLogger THEN <<>> ELSE loggers[progress_logger]

IsEvent(h) == h.kind = "event"
IsCall(h) == h.kind \in {"search", "invoke"}

SamePair(e, f) == e.component = f.component /\ e.action = f.action
IsTerminal(e) == e.status \in {"completed", "error"}

\* the events of every (component, action) pair alternate started, terminal,
\* started, ...: the last event of the same pair before a started event (if
\* any) is terminal, and before a terminal event it exists and is started
WellBracketed(events) ==
    \A i \in 1..Len(events) :
        LET before == { j \in 1..(i - 1) : SamePair(events[j], events[i]) }
            last == CHOOSE j \in before : \A k \in before : k <= j
        IN  IF events[i].status = "started"
            THEN before = {} \/ IsTerminal(events[last])
            ELSE before # {} /\ events[last].status = "started"

\* ------------------------------------------------------------------------
\* Properties
\* ------------------------------------------------------------------------

\* C1: once some stage has set status to error, no ProgressEvent of a later
\* stage (nor of the search/inference call of a later stage) is appended to
\* the event log: every logged event comes from a stage no later than the
\* first failed stage.
C1_NoEventAfterError ==
    \A i \in 1..Len(hist) :
        IsEvent(hist[i]) =>
            \A t \in failed : StageIndex(hist[i].stage) <= StageIndex(t)

\* C2: status = error is absorbing: a step taken with status error leaves
\* status error.
C2_ErrorAbsorbing == [][state.status = "error" => state'.status = "error"]_vars

\* C3: a stage invokes its external capability only when status equals the
\* 'From' state of its row of the transition table.
C3_ShortCircuit ==
    \A i \in 1..Len(hist) :
        IsCall(hist[i]) => hist[i].at = FromStatus(hist[i].stage)

\* C4: the result returned by execute_research has success = false and an
\* error string for every run in which a stage failed; success = true is
\* returned only for runs in which no stage failed.
C4_FailedRunReported ==
    Returned =>
        /\ failed # {} => (result.success = FALSE /\ "error" \in DOMAIN result)
        /\ result.success = TRUE => failed = {}

\* C5: generate_research_report is never started for a run in which a stage
\* failed: it is started only after a run whose terminal status is
\* report_generated.
C5_NoCompileOnFailedRun ==
    compiled > 0 => (failed = {} /\ Get(result, "status", "") = "report_generated")

\* C6: in every reachable state of every event log, the events of each
\* (component, action) pair are well bracketed: a terminal event follows an
\* open started event of its pair and no two started events of a pair occur
\* without a terminal event between them.
C6_StartedBeforeTerminal ==
    \A l \in 1..Len(loggers) : WellBracketed(loggers[l])

\* C7: every stage failure results in RunState.error holding a message,
\* status = error and an error event carrying that message appended by the
\* failing stage (checked when the failing stage has returned).
C7_FailureFullyRecorded ==
    \A s \in StageSet :
        (pc = EndPc(s) /\ s \in failed) =>
            /\ state.status = "error"
            /\ state.error # None
            /\ \E i \in 1..Len(hist) :
                  /\ IsEvent(hist[i])
                  /\ hist[i].stage = s
                  /\ hist[i].status = "error"
                  /\ hist[i].message = state.error

\* C8: the research stage run with an empty query ends with error set and
\* status = error, without having invoked the search capability.
C8_EmptyQueryNoSearch ==
    (pc = EndPc("research") /\ state.query = "") =>
        /\ state.status = "error"
        /\ state.error # None
        /\ \A i \in 1..Len(hist) : hist[i].kind # "search"

\* C9: the content-analysis stage run with empty search results ends with
\* status = error and the error message "No search results to analyze",
\* without having invoked the inference capability.
C9_NoResultsNoInference ==
    (pc = EndPc("analyze_content") /\ state.search_results = <<>>) =>
        /\ state.status = "error"
        /\ state.error = "No search results to analyze"
        /\ \A i \in 1..Len(hist) :
              ~(hist[i].stage = "analyze_content" /\ IsCall(hist[i]))

\* the search returned zero documents and the content analysis has returned
C9_Witness ==
    /\ pc = EndPc("analyze_content")
    /\ state.search_results = <<>>
    /\ "research" \notin failed
    /\ state.query = "AI safety"
    /\ \E i \in 1..Len(hist) : hist[i].kind = "search"

\* (component, action, status) of the events of a log
Triples(events) ==
    [ i \in 1..Len(events) |-> << events[i].component, events[i].action, events[i].status >> ]

\* the log of a run in which every stage succeeds
SuccessLog ==
    << << "LangGraph", "analyze_query", "started" >>,
       << "Gemini", "invoke", "started" >>,
       << "Gemini", "invoke", "completed" >>,
       << "LangGraph", "analyze_query", "completed" >>,
       << "Tavily", "search", "started" >>,
       << "Tavily", "search", "completed" >>,
       << "LangGraph", "analyze_content", "started" >>,
       << "Gemini", "invoke", "started" >>,
       << "Gemini", "invoke", "completed" >>,
       << "LangGraph", "analyze_content", "completed" >>,
       << "LangGraph", "generate_report", "started" >>,
       << "Gemini", "invoke", "started" >>,
       << "Gemini", "invoke", "completed" >>,
       << "LangGraph", "generate_report", "completed" >> >>

\* number of events of a log that are (not) inference bracketing events
CountWhere(events, gemini) ==
    Cardinality({ i \in 1..Len(events) : (events[i].component = "Gemini") = gemini })

\* C10: when all four stages succeed, the final status is report_generated
\* and the event log holds exactly 8 stage lifecycle events (started then
\* completed for each stage, in stage order), one started/completed
\* inference pair nested inside each of the three inference-using stages,
\* and no error event.
C10_SuccessfulRunLog ==
    (GraphEnded /\ failed = {}) =>
        /\ state.status = "report_generated"
        /\ Triples(RunLog) = SuccessLog
        /\ CountWhere(RunLog, FALSE) = 8
        /\ CountWhere(RunLog, TRUE) = 6
        /\ \A i \in 1..Len(RunLog) : RunLog[i].status # "error"

\* every stage of a run on "AI safety" with two documents succeeded and the
\* result was rendered
C10_Witness ==
    /\ pc = "displayed"
    /\ failed = {}
    /\ state.query = "AI safety"
    /\ Len(state.search_results) = 2
    /\ Len(RunLog) = 14

\* the variables of the pipeline and of the front end
pipeVars == << query, caller, pc, state, current_logger, loggers, progress_logger,
               result, result_holder, failed, hist, compiled >>

\* the pipeline at rest
PipeUnused ==
    /\ query = ""
    /\ caller = "none"
    /\ pc = "unused"
    /\ state = ResearchState("")
    /\ current_logger = NoLogger
    /\ loggers = <<>>
    /\ progress_logger = NoLogger
    /\ result = EmptyDict
    /\ result_holder = EmptyDict
    /\ failed = {}
    /\ hist = <<>>
    /\ compiled = 0
    /\ obs = ObserverLocals
    /\ earlier = NoEarlier

\* ------------------------------------------------------------------------
\* Section generator: inputs
\* ------------------------------------------------------------------------

\* largest max_workers of a generator of the model
MaxWorkers == 5

\* largest number of search results handed to the generator
MaxSources == 1

\* last value of the wall clock
MaxClock == 1

\* the inference call of a generation task raised
Raised == "<raised>"

\* the text the inference capability generates for the section of task k
GeneratedText(k) ==
    CASE k = 1 -> "generated summary"
      [] k = 2 -> "generated findings"
      [] k = 3 -> "generated methodology"
      [] k = 4 -> "generated implications"
      [] k = 5 -> "generated conclusion"

\* the inference call of a generation task returned a response that has no
\* content attribute
NoContent == "<no content>"

\* what the inference call of task k can do: raise, or return a response
\* without content or whose content is empty or the generated text
Responses(k) == { Raised, NoContent, "", GeneratedText(k) }

\* search results as web_researcher stores them
Sources == { ProcessedResult(r) : r \in RawDocs }

\* number of characters of the texts of the model
StrLen(str) ==
    CASE str = "" -> 0
      [] str = "text" -> 4
      [] str = "body" -> 4
      [] OTHER -> 1000

\* str[:n]; every text of the model that is sliced is shorter than every n in use
Slice(str, n) == IF StrLen(str) <= n THEN str ELSE "<sliced>"

\* the analyses and source lists a compile run is started with
GenInputs ==
    [ query : Queries \ {""}, analysis : GeminiTexts, search_results : SeqsUpTo(Sources, MaxSources) ]

\* ------------------------------------------------------------------------
\* Section generator: the tasks
\* ------------------------------------------------------------------------

ReportSection(title, content, order) == [ title |-> title, content |-> content, order |-> order ]

SectionTitle(k) ==
    CASE k = 1 -> "Executive Summary"
      [] k = 2 -> "Key Findings"
      [] k = 3 -> "Research Methodology"
      [] k = 4 -> "Implications & Recommendations"
      [] k = 5 -> "Conclusion"

\* the fallback argument task k passes to _safe_invoke
Fallback(k, analysis) ==
    CASE k = 1 -> IF analysis # "" THEN Slice(analysis, 300) \o "..." ELSE ""
      [] k = 2 -> "- Insufficient data to extract key findings."
      [] k = 3 -> "Desk research using reputable web sources; qualitative synthesis; limited by public data and recency."
      [] k = 4 -> "- Further research recommended; limited evidence available."
      [] k = 5 -> "This research indicates promising momentum; however, conclusions are tentative given limited public evidence."

\* getattr(resp, "content", "")
content_or_default(resp) == IF resp = NoContent THEN "" ELSE resp

\* _safe_invoke with a response that is returned for every content
_safe_invoke_any_content(resp, fallback) ==
    IF resp = Raised THEN fallback ELSE resp

\* _safe_invoke: the content of the response, the fallback when the call
\* raised or the content is missing or empty
_safe_invoke(resp, fallback) ==
    IF resp = Raised THEN fallback
    ELSE IF content_or_default(resp) # "" THEN content_or_default(resp) ELSE fallback

\* _generate_key_findings builds sources_text before it invokes: r['content'][:140]
\* raises for a result whose content is None
KeyFindingsRaises(search_results) ==
    \E i \in 1..Len(Take(search_results, 2)) : search_results[i].content = None

\* building the prompt of task k raises
PromptRaises(k, search_results) == k = 2 /\ KeyFindingsRaises(search_results)

\* the section task k returns when its inference call did resp
_generate(k, resp) == ReportSection(SectionTitle(k), _safe_invoke(resp, Fallback(k, g_in.analysis)), k)

NumRunning(run) == Cardinality({ k \in Tasks : run.task[k] = "running" })

\* the responses the other generator's run got for task k
OtherResponses(g, k) == { gen[h].resp[k] : h \in Generators \ {g} } \ { None }

\* generate_research_report / generate_report_async up to gather: the
\* generator (and its executor) is created, the five tasks are submitted
generate_report_async(g) ==
    /\ gen[g].pc = "idle"
    /\ \A h \in Generators : h < g => gen[h].pc \in {"returned", "raised"}
    /\ gen' = [gen EXCEPT ![g].pc = "gather_187",
                          ![g].task = [ k \in Tasks |-> "queued" ]]
    /\ UNCHANGED << pipeVars, g_in, now, obs, earlier >>

\* a thread of the executor with more workers than max_workers
executor_unbounded(g, k) ==
    /\ gen[g].task[k] = "queued"
    /\ \A j \in Tasks : j < k => gen[g].task[j] # "queued"
    /\ gen' = [gen EXCEPT ![g].task[k] =
                    IF PromptRaises(k, g_in.search_results) THEN "raised" ELSE "running"]
    /\ UNCHANGED << pipeVars, g_in, now, obs, earlier >>

\* a thread of the executor takes the oldest queued task, when fewer than
\* max_workers tasks are running; the task builds its prompt (which raises
\* out of the task, or not) and enters _safe_invoke
executor_run(g, k) ==
    /\ gen[g].task[k] = "queued"
    /\ \A j \in Tasks : j < k => gen[g].task[j] # "queued"
    /\ NumRunning(gen[g]) < gen[g].max_workers
    /\ gen' = [gen EXCEPT ![g].task[k] =
                    IF PromptRaises(k, g_in.search_results) THEN "raised" ELSE "running"]
    /\ UNCHANGED << pipeVars, g_in, now, obs, earlier >>

\* the inference call of task k returns or raises, and the task returns its
\* section; two runs on the same inputs get the same response per section
task_return(g, k) ==
    /\ gen[g].task[k] = "running"
    /\ \E resp \in Responses(k) :
          /\ \A other \in OtherResponses(g, k) : resp = other
          /\ gen' = [gen EXCEPT ![g].task[k] = "done",
                                ![g].resp[k] = resp,
                                ![g].out[k] = _generate(k, resp),
                                ![g].overtaken = @ \/ \E j \in Tasks : j < k /\ gen[g].task[j] # "done"]
    /\ UNCHANGED << pipeVars, g_in, now, obs, earlier >>

\* seq with x inserted before the first element of greater order
RECURSIVE InsertByOrder(_, _)
InsertByOrder(seq, x) ==
    IF seq = <<>> THEN << x >>
    ELSE IF x.order < Head(seq).order THEN << x >> \o seq
    ELSE << Head(seq) >> \o InsertByOrder(Tail(seq), x)

\* sections.sort(key=lambda x: x.order): a stable sort
RECURSIVE SortByOrder(_)
SortByOrder(seq) ==
    IF seq = <<>> THEN <<>>
    ELSE InsertByOrder(SortByOrder(SubSeq(seq, 1, Len(seq) - 1)), seq[Len(seq)])

\* gather returning as soon as one task is done, with the sections of the
\* tasks done so far
gather_first_completed(g) ==
    /\ gen[g].pc = "gather_187"
    /\ \E k \in Tasks : gen[g].task[k] = "done"
    /\ LET done == SelectSeq(<< 1, 2, 3, 4, 5 >>, LAMBDA k : gen[g].task[k] = "done")
       IN  gen' = [gen EXCEPT ![g].pc = "compile_193",
                              ![g].sections = SortByOrder([ i \in 1..Len(done) |-> gen[g].out[done[i]] ])]
    /\ UNCHANGED << pipeVars, g_in, now, obs, earlier >>

\* asyncio.gather returns the results of the five tasks, in the order of the
\* tasks, once all are done; the sections are sorted by order
gather_return(g) ==
    /\ gen[g].pc = "gather_187"
    /\ \A k \in Tasks : gen[g].task[k] = "done"
    /\ gen' = [gen EXCEPT ![g].pc = "compile_193",
                          ![g].sections = SortByOrder([ k \in Tasks |-> gen[g].out[k] ])]
    /\ UNCHANGED << pipeVars, g_in, now, obs, earlier >>

\* asyncio.gather raises the exception of a task; generate_report_async and
\* its callers propagate it
gather_raise(g) ==
    /\ gen[g].pc = "gather_187"
    /\ \E k \in Tasks : gen[g].task[k] = "raised"
    /\ gen' = [gen EXCEPT ![g].pc = "raised"]
    /\ UNCHANGED << pipeVars, g_in, now, obs, earlier >>

\* ------------------------------------------------------------------------
\* Section generator: compilation
\* ------------------------------------------------------------------------

\* sec_map.get(title, ReportSection(title, "", k)).content, where sec_map maps
\* each title to the last section of the list with that title
SecContent(sections, title) ==
    LET having == { i \in 1..Len(sections) : sections[i].title = title }
    IN  IF having = {} THEN ""
        ELSE sections[CHOOSE i \in having : \A j \in having : j <= i].content

\* x or ''
OrEmpty(x) == IF x = None THEN "" ELSE x

\* the literature review block: one point per source among the first five
LiteratureReview(search_results) ==
    LET first == Take(search_results, 5)
    IN  IF first = <<>> THEN << "- N/A" >>
        ELSE [ i \in 1..Len(first) |->
                 [ title |-> Get(first[i], "title", "Untitled"),
                   snippet |-> Slice(OrEmpty(Get(first[i], "content", "")), 200),
                   url |-> Get(first[i], "url", "N/A") ] ]

\* the diagram block: one node per source among the first three
MermaidBlock(search_results) ==
    LET first == Take(search_results, 3)
    IN  << "graph LR", "A[Query] --> B[Key Findings]" >> \o
        [ i \in 1..Len(first) |-> [ sid |-> i, stitle |-> Get(first[i], "title", "Source") ] ]

\* the enumerated source list: the first ten sources
SourceList(search_results) ==
    LET first == Take(search_results, 10)
    IN  [ i \in 1..Len(first) |->
            [ title |-> Get(first[i], "title", "Untitled"),
              url |-> Get(first[i], "url", "N/A"),
              source |-> Get(first[i], "source", "Unknown") ] ]

\* the blocks of the report template, top to bottom; generated is the value
\* of datetime.now() in the "Generated:" line
ReportText(q, sections, search_results, generated) ==
    << [ heading |-> "Research Report", body |-> q ],
       [ heading |-> "Generated", body |-> generated ],
       [ heading |-> "Abstract", body |-> SecContent(sections, "Executive Summary") ],
       [ heading |-> "Methodology", body |-> SecContent(sections, "Research Methodology") ],
       [ heading |-> "Literature Review", body |-> LiteratureReview(search_results) ],
       [ heading |-> "Key Findings", body |-> SecContent(sections, "Key Findings") ],
       [ heading |-> "Findings Overview (Visual)", body |-> MermaidBlock(search_results) ],
       [ heading |-> "Discussion", body |-> SecContent(sections, "Implications & Recommendations") ],
       [ heading |-> "Conclusion", body |-> SecContent(sections, "Conclusion") ],
       [ heading |-> "Sources", body |-> SourceList(search_results) ],
       [ heading |-> "Total sources analyzed", body |-> Len(search_results) ] >>

\* a compilation that fills the five section slots of the template, top to
\* bottom, with the sorted sections by position
_compile_report_by_position(g) ==
    LET slot == << 1, 3, 2, 4, 5 >>
        placed == [ i \in 1..Len(gen[g].sections) |->
                      ReportSection(SectionTitle(slot[i]), gen[g].sections[i].content, slot[i]) ]
    IN  ReportText(g_in.query, placed, g_in.search_results, now)

\* _compile_report on the gathered sections
_compile_report(g) ==
    ReportText(g_in.query, gen[g].sections, g_in.search_results, now)

\* the rest of generate_report_async: the report is compiled and returned
generate_report_async_return(g) ==
    /\ gen[g].pc = "compile_193"
    /\ gen' = [gen EXCEPT ![g].pc = "returned",
                          ![g].result = [ success |-> TRUE,
                                          query |-> g_in.query,
                                          report |-> _compile_report(g),
                                          sections_count |-> Len(gen[g].sections),
                                          generated_at |-> now,
                                          sources_count |-> Len(g_in.search_results) ]]
    /\ UNCHANGED << pipeVars, g_in, now, obs, earlier >>

\* a second of wall-clock time passes
tick ==
    /\ now < MaxClock
    /\ now' = now + 1
    /\ UNCHANGED << pipeVars, g_in, gen, obs, earlier >>

\* one compile run of a generator with max_workers between 1 and MaxWorkers
GenInit ==
    /\ PipeUnused
    /\ g_in \in GenInputs
    /\ \E W \in 1..MaxWorkers :
          gen = [ g \in Generators |-> IF g = 1 THEN IdleRun(W, "idle") ELSE IdleRun(0, "unused") ]
    /\ now = 0

GenNext ==
    \/ \E g \in Generators : generate_report_async(g)
    \/ \E g \in Generators, k \in Tasks : executor_run(g, k)
    \/ \E g \in Generators, k \in Tasks : task_return(g, k)
    \/ \E g \in Generators : gather_return(g)
    \/ \E g \in Generators : gather_raise(g)
    \/ \E g \in Generators : generate_report_async_return(g)

GenSpec == GenInit /\ [][GenNext]_vars

\* two compile runs on the same inputs, one after the other: the first with
\* max_workers = 1 (serial), the second with max_workers = 5 (all five tasks
\* in parallel)
PairInit ==
    /\ PipeUnused
    /\ g_in \in GenInputs
    /\ gen = [ g \in Generators |-> IF g = 1 THEN IdleRun(1, "idle") ELSE IdleRun(5, "idle") ]
    /\ now = 0

PairNext ==
    \/ GenNext
    \/ tick

PairSpec == PairInit /\ [][PairNext]_vars

\* ------------------------------------------------------------------------
\* Section generator: vocabulary of the properties
\* ------------------------------------------------------------------------

\* the section slots of the template, top to bottom
SectionSlots == << "Abstract", "Methodology", "Key Findings", "Discussion", "Conclusion" >>

\* the bodies of the section slots of a report, top to bottom
SlotBodies(report) ==
    LET slots == SelectSeq(report, LAMBDA b : \E i \in 1..Len(SectionSlots) : b.heading = SectionSlots[i])
    IN  [ i \in 1..Len(slots) |-> slots[i].body ]

\* the contents of the sections the tasks of a run returned, in the order given
Contents(run, order) == [ i \in 1..Len(order) |-> run.out[order[i]].content ]

\* the content the report of a run presents for the section of task k
Presented(run, k) ==
    LET at == CHOOSE i \in 1..Len(run.result.report) :
                  run.result.report[i].heading = SectionSlots[CHOOSE j \in 1..5 : << 1, 3, 2, 4, 5 >>[j] = k]
    IN  run.result.report[at].body

\* a report without its "Generated:" line
Undated(report) == SelectSeq(report, LAMBDA b : b.heading # "Generated")

Compiled(g) == gen[g].pc = "returned"

\* ------------------------------------------------------------------------
\* Section generator: properties
\* ------------------------------------------------------------------------

C12_FallbackOnlyOnRaise ==
    \A g \in Generators :
        Compiled(g) =>
            \A k \in Tasks :
                Presented(gen[g], k) = IF gen[g].resp[k] = Raised
                                       THEN Fallback(k, g_in.analysis)
                                       ELSE gen[g].resp[k]

\* C12 (amended): in the compiled report, each section whose inference call
\* raised or returned no text or an empty text holds its fallback text (a fixed text per
\* section; for the executive summary the first 300 characters of the
\* analysis followed by "...", or the empty text for an empty analysis), and
\* every other section holds exactly the text its own inference call returned.
C12_FallbackOnRaiseOrEmpty ==
    \A g \in Generators :
        Compiled(g) =>
            \A k \in Tasks :
                Presented(gen[g], k) = IF gen[g].resp[k] \in { Raised, NoContent, "" }
                                       THEN Fallback(k, g_in.analysis)
                                       ELSE gen[g].resp[k]

\* the inference call raised in the methodology task only
C12_Witness ==
    /\ Compiled(1)
    /\ gen[1].resp[3] = Raised
    /\ \A k \in Tasks \ {3} : gen[1].resp[k] = GeneratedText(k)

\* C13: compilation never fails as a whole: generate_report_async never
\* raises, and returns success with sections_count = 5 and a section for
\* each of the five kinds, whatever fails inside a task.
C13_CompileNeverFails ==
    \A g \in Generators :
        /\ gen[g].pc # "raised"
        /\ \A k \in Tasks : gen[g].task[k] # "raised"
        /\ Compiled(g) => (gen[g].result.success /\ gen[g].result.sections_count = 5)

\* C14: in every state of a compile run with max_workers = W, at most W of
\* the five tasks are executing.
C14_AtMostWRunning ==
    \A g \in Generators :
        gen[g].pc # "unused" =>
            NumRunning(gen[g]) <= gen[g].max_workers

\* the worker bound is binding: two tasks run, a third waits for a worker
C14_Witness ==
    /\ gen[1].max_workers = 2
    /\ NumRunning(gen[1]) = 2
    /\ \E k \in Tasks : gen[1].task[k] = "queued"

\* C15: compilation starts only after all five tasks have terminated: the
\* run is never at or past _compile_report while a task is queued or running.
C15_FanInBarrier ==
    \A g \in Generators :
        gen[g].pc \in {"compile_193", "returned"} =>
            /\ \A k \in Tasks : gen[g].task[k] = "done"
            /\ Len(gen[g].sections) = 5

\* compilation is about to start after tasks ran in parallel and completed
\* out of order
C15_Witness ==
    /\ gen[1].pc = "compile_193"
    /\ gen[1].max_workers = 4
    /\ gen[1].overtaken

ThreadAlive == caller = "main" /\ pc \notin {"idle", "unused", "thread_done", "displayed"}

\* s[n:]
Drop(s, n) == IF n >= Len(s) THEN <<>> ELSE SubSeq(s, n + 1, Len(s))

\* the flag updates of one event x of the chunk (app.py 305-317)
flag_update(fl, x) ==
    LET stage == IF x.component = "LangGraph" /\ x.action = "analyze_query" THEN "qa"
                 ELSE IF x.component = "Tavily" /\ x.action = "search" THEN "wr"
                 ELSE IF x.component = "LangGraph" /\ x.action = "analyze_content" THEN "ca"
                 ELSE IF x.component = "LangGraph" /\ x.action = "generate_report" THEN "rp"
                 ELSE "" 
        set(f, name) == [f EXCEPT ![name] = TRUE]
        started == IF x.status = "started" /\ stage # ""
                   THEN set(fl, IF stage = "qa" THEN "qa_started" ELSE IF stage = "wr" THEN "wr_started"
                                ELSE IF stage = "ca" THEN "ca_started" ELSE "rp_started")
                   ELSE fl
    IN  IF x.status = "completed" /\ stage # ""
        THEN set(started, IF stage = "qa" THEN "qa_done" ELSE IF stage = "wr" THEN "wr_done"
                          ELSE IF stage = "ca" THEN "ca_done" ELSE "rp_done")
        ELSE started

\* the flags after the loop over the chunk, for a poll that starts from no flags
RECURSIVE stage_flags_of_chunk_only(_, _)
stage_flags_of_chunk_only(fl, chunk) ==
    IF chunk = <<>> THEN NoFlags
    ELSE flag_update(stage_flags_of_chunk_only(fl, SubSeq(chunk, 1, Len(chunk) - 1)), chunk[Len(chunk)])

\* the flags after "for x in chunk" (app.py 303-317): flags are only ever set
RECURSIVE stage_flags(_, _)
stage_flags(fl, chunk) ==
    IF chunk = <<>> THEN fl
    ELSE flag_update(stage_flags(fl, SubSeq(chunk, 1, Len(chunk) - 1)), chunk[Len(chunk)])

\* the term of the report stage in prog (app.py 331)
rp_credit(fl) == IF fl.rp_started /\ ~fl.rp_done THEN 0 ELSE IF fl.rp_done THEN RPDone ELSE 0

\* prog (app.py 328-332)
prog(fl) ==
      (IF fl.qa_started /\ ~fl.qa_done THEN QAStarted ELSE IF fl.qa_done THEN QADone ELSE 0)
    + (IF fl.wr_started /\ ~fl.wr_done THEN WRStarted ELSE IF fl.wr_done THEN WRDone ELSE 0)
    + (IF fl.ca_started /\ ~fl.ca_done THEN CAStarted ELSE IF fl.ca_done THEN CADone ELSE 0)
    + rp_credit(fl)

Min(a, b) == IF a < b THEN a ELSE b

\* a displayed value that follows prog whether or not the result exists
displayed_uncapped(fl, result_ready) == Min(Full, prog(fl))

\* displayed (app.py 335)
displayed(fl, result_ready) ==
    IF result_ready /\ fl.rp_done THEN Full ELSE Min(Hold, prog(fl))

\* an update of event_state that keeps the first event of a pair
event_state_keep_first(es, x) ==
    LET key == << x.component, x.action >>
    IN  [ k \in DOMAIN es \cup {key} |->
            IF k \in DOMAIN es THEN es[k]
            ELSE [ timestamp |-> x.timestamp, status |-> x.status, message |-> x.message ] ]

\* event_state[(x.component, x.action)] = {...} (app.py 319-323)
event_state_update(es, x) ==
    LET key == << x.component, x.action >>
    IN  [ k \in DOMAIN es \cup {key} |->
            IF k = key
            THEN [ timestamp |-> x.timestamp, status |-> x.status, message |-> x.message ]
            ELSE es[k] ]

\* event_state after "for x in chunk" (app.py 302-323)
RECURSIVE event_state_after(_, _)
event_state_after(es, chunk) ==
    IF chunk = <<>> THEN es
    ELSE event_state_update(event_state_after(es, SubSeq(chunk, 1, Len(chunk) - 1)), chunk[Len(chunk)])

\* the loop test passed: the current logger is read and its events are copied
\* (app.py 281-283)
poll_snapshot ==
    /\ obs.pc = "loop_281"
    /\ ThreadAlive
    /\ obs' = [obs EXCEPT !.pc = "body_300",
                          !.logger = current_logger,
                          !.events = IF current_logger # NoLogger THEN loggers[current_logger] ELSE <<>>]
    /\ UNCHANGED << pipeVars, otherVars >>

\* the rest of the iteration (app.py 300-406): the new events of the snapshot
\* set the flags, the bar is redrawn and last_len advances; nothing happens
\* when the snapshot is not longer than last_len
poll_update ==
    /\ obs.pc = "body_300"
    /\ IF Len(obs.events) > obs.last_len
       THEN LET chunk == Drop(obs.events, obs.last_len)
                fl == stage_flags(obs.flags, chunk)
                result_ready == "result" \in DOMAIN result_holder
            IN  obs' = [obs EXCEPT !.pc = "loop_281",
                                   !.flags = fl,
                                   !.event_state = event_state_after(obs.event_state, chunk),
                                   !.processed = obs.processed \o chunk,
                                   !.bar = displayed(fl, result_ready),
                                   !.last_len = Len(obs.events)]
       ELSE obs' = [obs EXCEPT !.pc = "loop_281"]
    /\ UNCHANGED << pipeVars, otherVars >>

\* one run started from the front end, and its observer
ObsInit ==
    /\ Init
    /\ query # ""

ObsNext ==
    \/ main
    \/ execute_research_begin
    \/ query_analyzer_started
    \/ query_analyzer_gemini_started
    \/ query_analyzer_invoke
    \/ query_analyzer_gemini_completed
    \/ query_analyzer_completed
    \/ web_researcher_started
    \/ web_researcher_search
    \/ web_researcher_completed
    \/ content_analyzer_started
    \/ content_analyzer_gemini_started
    \/ content_analyzer_invoke
    \/ content_analyzer_gemini_completed
    \/ content_analyzer_completed
    \/ report_generator_started
    \/ report_generator_gemini_started
    \/ report_generator_invoke
    \/ report_generator_gemini_completed
    \/ report_generator_completed
    \/ execute_research_output
    \/ _run
    \/ display_results
    \/ poll_snapshot
    \/ poll_update

ObsSpec == ObsInit /\ [][ObsNext]_vars

\* ------------------------------------------------------------------------
\* Claims about the event log and the observer
\* ------------------------------------------------------------------------

\* a is a prefix of b
IsPrefix(a, b) == Len(a) <= Len(b) /\ SubSeq(b, 1, Len(a)) = a

\* C18: every EventLog is append-only: each step leaves every log extended
\* (nothing removed, reordered or mutated), a snapshot of the observer is a
\* prefix of the log it was taken from at all later times, and so a prefix of
\* every later snapshot of the same log.
C18_AppendOnly ==
    [][ /\ \A l \in 1..Len(loggers) : l <= Len(loggers') /\ IsPrefix(loggers[l], loggers'[l])
        /\ obs'.logger # NoLogger => IsPrefix(obs'.events, loggers'[obs'.logger])
        /\ obs'.logger = obs.logger => IsPrefix(obs.events, obs'.events) ]_vars

\* the observer processed one snapshot, holds a later and longer one of the
\* same log, and the worker has appended to the log since
C18_Witness ==
    /\ obs.logger # NoLogger
    /\ 0 < obs.last_len
    /\ obs.last_len < Len(obs.events)
    /\ Len(obs.events) < Len(loggers[obs.logger])

\* C20: the value displayed on the progress bar never decreases, from the
\* first poll to the final update after the poll loop, whatever the
\* interleaving of the polls with the worker's appends.
C20_BarMonotone == [][obs'.bar >= obs.bar]_vars

\* the polls displayed a partial estimate and held it, and the final update
\* after the loop filled the bar
C20_Witness ==
    /\ obs.pc = "after_loop"
    /\ obs.bar = Full
    /\ obs.last_len > 0
    /\ 0 < displayed(obs.flags, TRUE)
    /\ displayed(obs.flags, TRUE) < Hold

\* ------------------------------------------------------------------------
\* A new run started while the worker thread of an earlier run is executing
\* ------------------------------------------------------------------------

\* a ProgressEvent built by the earlier run's worker, which read the clock at ts
EarlierEvent(ts, component, action, status, message) ==
    [ProgressEvent(component, action, status, message) EXCEPT !.timestamp = ts, !.run = "earlier"]

\* the log_event calls ahead of the earlier worker. It is either in
\* query_analyzer before llm.invoke (research_agent.py 59 and 82; "qa_83" is
\* the worker waiting for llm.invoke to return), or at the end of
\* report_generator (research_agent.py 258), after which execute_research
\* builds its output and resets the current logger
EarlierStarts == {"qa_59", "rg_258"}

EarlierAfter(at) ==
    IF at \in {"qa_59", "qa_59_emit"} THEN "qa_82"
    ELSE IF at \in {"qa_82", "qa_82_emit"} THEN "qa_83"
    ELSE "er_301"

\* log_event up to the clock read of emit: logger = get_current_logger(), and
\* if there is one, datetime.now() (progress.py 46-48, 23)
earlier_log_event ==
    /\ earlier.pc \in {"qa_59", "qa_82", "rg_258"}
    /\ earlier' = IF current_logger # NoLogger
                  THEN [ pc |-> earlier.pc \o "_emit", logger |-> current_logger, ts |-> now ]
                  ELSE [earlier EXCEPT !.pc = EarlierAfter(earlier.pc)]
    /\ UNCHANGED << pipeVars, genVars, obs >>

\* the rest of emit: the event is appended to the events of the logger that
\* log_event read (progress.py 21-22)
earlier_append ==
    /\ earlier.pc \in {"qa_59_emit", "qa_82_emit", "rg_258_emit"}
    /\ loggers' = [loggers EXCEPT ![earlier.logger] =
                      Append(@, IF earlier.pc = "qa_59_emit"
                                THEN EarlierEvent(earlier.ts, "LangGraph", "analyze_query", "started",
                                                  "Analyzing query")
                                ELSE IF earlier.pc = "qa_82_emit"
                                THEN EarlierEvent(earlier.ts, "Gemini", "invoke", "started",
                                                  "Generating topic analysis")
                                ELSE EarlierEvent(earlier.ts, "LangGraph", "generate_report", "completed",
                                                  "Report generation completed"))]
    /\ earlier' = [earlier EXCEPT !.pc = EarlierAfter(earlier.pc)]
    /\ UNCHANGED << query, caller, pc, state, current_logger, progress_logger, result,
                    result_holder, failed, hist, compiled, genVars, obs >>

\* the end of the earlier run's execute_research: set_current_logger(None)
\* (research_agent.py 335), whichever logger is current
earlier_output ==
    /\ earlier.pc = "er_301"
    /\ current_logger' = NoLogger
    /\ earlier' = [earlier EXCEPT !.pc = "returned"]
    /\ UNCHANGED << query, caller, pc, state, loggers, progress_logger, result,
                    result_holder, failed, hist, compiled, genVars, obs >>

\* the messages of the events of SuccessLog, for a search that found one result
SuccessMessages ==
    << "Analyzing query", "Generating topic analysis", "Topic analysis generated",
       "Query analysis completed", "Searching the web", "Found 1 results",
       "Analyzing synthesized content", "Synthesizing content analysis", "Analysis synthesized",
       "Content analysis completed", "Composing final report", "Generating final report",
       "Report generated", "Report generation completed" >>

\* the earlier run's own log when its worker is at a start position: empty
\* before query_analyzer, all events of a successful run but the last at the
\* end of report_generator
EarlierLog(at) ==
    IF at = "qa_59" THEN <<>>
    ELSE [ i \in 1..(Len(SuccessLog) - 1) |->
             EarlierEvent(0, SuccessLog[i][1], SuccessLog[i][2], SuccessLog[i][3], SuccessMessages[i]) ]

\* the earlier run's logger is the current one (research_agent.py 293-294)
\* and its worker is at one of the start positions; the form is submitted
\* again. The new run is followed to the end of its first stage.
RunsInit ==
    /\ query \in Queries \ {""}
    /\ caller = "none"
    /\ pc = "idle"
    /\ state = ResearchState("")
    /\ GenUnused
    /\ \E at \in EarlierStarts :
          /\ loggers = << EarlierLog(at) >>
          /\ earlier = [ pc |-> at, logger |-> NoLogger, ts |-> 0 ]
    /\ current_logger = Len(loggers)
    /\ progress_logger = NoLogger
    /\ result = EmptyDict
    /\ result_holder = EmptyDict
    /\ failed = {}
    /\ hist = <<>>
    /\ compiled = 0
    /\ obs = ObserverLocals

RunsNext ==
    \/ main
    \/ execute_research_begin
    \/ query_analyzer_started
    \/ query_analyzer_gemini_started
    \/ query_analyzer_invoke
    \/ query_analyzer_gemini_completed
    \/ query_analyzer_completed
    \/ poll_snapshot
    \/ poll_update
    \/ earlier_log_event
    \/ earlier_append
    \/ earlier_output
    \/ tick

RunsSpec == RunsInit /\ [][RunsNext]_vars

\* all events of a sequence were emitted by the stages of one run
OneRun(events) == \A i, j \in 1..Len(events) : events[i].run = events[j].run

\* C17: when a new run starts while an earlier run's worker thread is still
\* executing stages, no EventLog contains events emitted by the stages of two
\* different runs, and every event sequence the observer reads consists of
\* the events of a single run.
C17_SingleRunLogs ==
    /\ \A l \in 1..Len(loggers) : OneRun(loggers[l])
    /\ OneRun(obs.events)

\* timestamps of a sequence of events are non-decreasing
Ordered(events) ==
    \A i, j \in 1..Len(events) : i < j => events[i].timestamp <= events[j].timestamp

\* C19: the timestamps of the events in the EventLog of the run are
\* non-decreasing in append order.
C19_TimestampsOrdered ==
    progress_logger # NoLogger => Ordered(loggers[progress_logger])

\* the worker has stored the result of the run in result_holder
ResultStored == "result" \in DOMAIN result_holder

\* C21: while the worker has stored no result the displayed estimate is at
\* most 85, and the bar steps to 100 only in a state where the result exists.
C21_FullOnlyWithResult ==
    /\ [](~ResultStored => obs.bar <= Hold)
    /\ [][(obs.bar # Full /\ obs'.bar = Full) => ResultStored]_vars

\* every stage was seen completed, the weighted estimate is 100, no result is
\* stored yet and the bar is held at 85
C21_Witness ==
    /\ ~ResultStored
    /\ obs.last_len > 0
    /\ prog(obs.flags) = Full
    /\ obs.bar = Hold

\* C22: in the observer's weighted estimate the report stage contributes 0 in
\* every state where the status of the run is not report_generated, and its
\* weight 20 only once the run has reached report_generated.
C22_ReportCreditOnlyWhenGenerated ==
    state.status # "report_generated" => rp_credit(obs.flags) = 0

\* C23: execute_research never raises to its caller: when an error escapes
\* the pipeline (the construction or the invocation of the graph fails), it
\* returns a result with success = false, the message of the error and the
\* original query.
C23_EscapedErrorReturned ==
    /\ Returned => "success" \in DOMAIN result
    /\ \A i \in 1..Len(hist) :
          hist[i].kind = "raise" =>
              /\ Returned
              /\ result = [ success |-> FALSE, error |-> hist[i].message, query |-> query ]

\* an exception was raised after the logger of the run was installed and
\* execute_research has returned to a direct caller
C23_Witness ==
    /\ Returned
    /\ Escaped
    /\ caller = "direct"
    /\ progress_logger # NoLogger
    /\ result.success = FALSE

\* C24: within one run RunState.error is written at most once and never
\* cleared: once it holds a message, no step changes it to another message
\* or back to none.
C24_ErrorWrittenOnce == [][state.error # None => state'.error = state.error]_vars

\* the worker keeps running and every external call returns or raises: a step
\* of the run that is possible is eventually taken
LiveSpec == Spec /\ WF_vars(Next)

Pairs(events) == { << events[i].component, events[i].action >> : i \in 1..Len(events) }

\* for each pair of a sequence of events, the timestamp, status and message
\* of the last event with that pair
LatestOf(events) ==
    [ k \in Pairs(events) |->
        LET with == { i \in 1..Len(events) : << events[i].component, events[i].action >> = k }
            last == CHOOSE i \in with : \A j \in with : j <= i
        IN  [ timestamp |-> events[last].timestamp, status |-> events[last].status,
              message |-> events[last].message ] ]

\* C26: after the observer has processed n events, its per-pair display
\* state maps each (component, action) pair among them to the timestamp,
\* status and message of the last processed event with that pair, however
\* the events were split across polls.
C26_LatestPerPair == obs.event_state = LatestOf(obs.processed)

\* the polls before this one processed events in which the pair (Gemini,
\* invoke) occurred more than once, and a further chunk is about to be
\* processed
C26_Witness ==
    /\ obs.pc = "body_300"
    /\ 0 < obs.last_len
    /\ obs.last_len < Len(obs.events)
    /\ Cardinality({ i \in 1..Len(obs.processed) :
                       obs.processed[i].component = "Gemini" /\ obs.processed[i].action = "invoke" }) > 2
    /\ obs.event_state[<< "Gemini", "invoke" >>].status = "completed"

\* the stage whose node is executing at position p ("" outside the nodes)
StageAt(p) ==
    IF p \in {"qa_59", "qa_82", "qa_83", "qa_86", "qa_88"} THEN "analyze_query"
    ELSE IF p \in {"wr_100", "wr_106", "wr_125"} THEN "research"
    ELSE IF p \in {"ca_137", "ca_186", "ca_187", "ca_190", "ca_191"} THEN "analyze_content"
    ELSE IF p \in {"rg_204", "rg_253", "rg_254", "rg_257", "rg_258"} THEN "generate_report"
    ELSE ""

\* the result fields of a RunState
ResultFields(st) == << st.research_topic, st.search_results, st.analysis, st.report >>

\* C27: no step of a stage changes RunState.query; no step of analyze_content
\* or generate_report changes searchResults; and a step of a stage that has
\* failed leaves research_topic, searchResults, analysis and report as they
\* were (a failing stage writes only error and status).
C27_FrameConditions ==
    [][ /\ StageAt(pc) # "" => state'.query = state.query
        /\ StageAt(pc) \in {"analyze_content", "generate_report"} =>
              state'.search_results = state.search_results
        /\ StageAt(pc) \in failed' => ResultFields(state') = ResultFields(state) ]_vars

\* what the stages of the run did, in order (events and external calls)
StageHist == SelectSeq(hist, LAMBDA h : h.stage \in StageSet)

\* the events the stages of the run emitted, in order
StageEvents == SelectSeq(hist, IsEvent)

\* C28: the stages execute one after the other in the order analyze_query,
\* research, analyze_content, generate_report, each at most once and never
\* overlapping: the event log of the run holds the events of its stages in
\* the order they were emitted, and every event (and external call) of an
\* earlier stage precedes every one of a later stage.
C28_StagesInOrder ==
    /\ Len(RunLog) = Len(StageEvents)
    /\ \A i \in 1..Len(RunLog) :
          /\ RunLog[i].component = StageEvents[i].component
          /\ RunLog[i].action = StageEvents[i].action
          /\ RunLog[i].status = StageEvents[i].status
          /\ RunLog[i].message = StageEvents[i].message
    /\ \A i, j \in 1..Len(StageHist) :
          i < j => StageIndex(StageHist[i].stage) <= StageIndex(StageHist[j].stage)

\* all four stages have run and logged their events, and execute_research
\* has returned to the worker thread
C28_Witness ==
    /\ pc = "returned"
    /\ caller = "main"
    /\ Len(RunLog) = Len(SuccessLog)
    /\ { StageHist[i].stage : i \in 1..Len(StageHist) } = StageSet

\* C29: a terminal status of report_generated implies that every stage of
\* the run succeeded: error is none, searchResults is non-empty, and analysis
\* and report were written by their stages (their inference calls returned).
C29_GeneratedMeansAllSucceeded ==
    (GraphEnded /\ state.status = "report_generated") =>
        /\ failed = {}
        /\ state.error = None
        /\ state.search_results # <<>>
        /\ \A s \in {"analyze_content", "generate_report"} :
              \E i \in 1..Len(hist) : hist[i].stage = s /\ hist[i].kind = "invoke"

\* C30: the sequence of events the observer has processed (the chunks
\* events[last_len:] of all polls, the current log being fetched anew on each
\* poll) is always a prefix of the event log of the run, with no event
\* skipped or processed twice; last_len never decreases and never exceeds
\* the number of events the run has appended.
C30_ProcessedIsPrefix ==
    /\ [](/\ IsPrefix(obs.processed, RunLog)
          /\ obs.last_len = Len(obs.processed)
          /\ obs.last_len <= Len(RunLog))
    /\ [][obs'.last_len >= obs.last_len]_vars

\* C31: in a generation task, an inference call that returns a response with
\* empty or missing content is treated exactly like one that raised: the
\* content of the section the task returns is its fallback text, and it is
\* the text of the response only for a response with non-empty content.
C31_EmptyLikeRaised ==
    \A g \in Generators, k \in Tasks :
        gen[g].task[k] = "done" =>
            /\ gen[g].resp[k] \in { NoContent, "" } =>
                  gen[g].out[k] = _generate(k, Raised)
            /\ gen[g].out[k].content =
                  IF gen[g].resp[k] = GeneratedText(k) THEN gen[g].resp[k]
                  ELSE Fallback(k, g_in.analysis)

\* the summary task got a response with empty content and the findings task
\* one without content; both returned their fallback texts, which differ
\* from what the responses held
C31_Witness ==
    /\ gen[1].task[1] = "done"
    /\ gen[1].resp[1] = ""
    /\ gen[1].out[1].content # ""
    /\ gen[1].task[2] = "done"
    /\ gen[1].resp[2] = NoContent
    /\ gen[1].out[2].content = Fallback(2, g_in.analysis)

====
